---------------------------- MODULE Spec2Model ----------------------------
(***************************************************************************)
(* Word-completion assistant: the character n-gram model of ngram.py       *)
(* (NgramCharacterModel) and the editing session of user_interface.py      *)
(* (TerminalUI.handle_input driven by the loop of TerminalUI.run).         *)
(*                                                                         *)
(* A Python str is a sequence of one-character strings.  A defaultdict(int)*)
(* is a function whose DOMAIN is the dict's key set: reading a missing key *)
(* returns 0 AND inserts the key, as collections.defaultdict does.  A      *)
(* float that the code obtains from counts (a quotient, or exp of a sum of *)
(* logs of quotients) is the exact rational <<p, q>> in lowest terms;      *)
(* math.log(0) raises ValueError, and that is modelled as an outcome.      *)
(***************************************************************************)
EXTENDS Integers, Sequences, FiniteSets, TLC

VARIABLES
    n,                        \* NgramCharacterModel.n
    ngram_counts,             \* NgramCharacterModel.ngram_counts
    prefix_counts,            \* NgramCharacterModel.prefix_counts
    words,                    \* NgramCharacterModel.words, in its iteration order
    pc,                       \* "new" before NgramCharacterModel(...), then "trained"
    ret,                      \* outcome of the latest call on the model
    queries,                  \* number of model queries made so far
    suggestions,              \* TerminalUI.suggestions
    current_suggestion_idx,   \* TerminalUI.current_suggestion_idx
    scores,                   \* TerminalUI.scores
    user_input,               \* TerminalUI.user_input
    cursor_pos,               \* TerminalUI.cursor_pos
    total_letter_keys_typed,  \* TerminalUI.total_letter_keys_typed
    total_tab_key_presses,    \* TerminalUI.total_tab_key_presses
    running,                  \* local `running` of TerminalUI.run
    key                       \* local `key` of TerminalUI.run

modelVars == <<n, ngram_counts, prefix_counts, words, pc>>
uiVars == <<suggestions, current_suggestion_idx, scores, user_input, cursor_pos,
            total_letter_keys_typed, total_tab_key_presses, running, key>>
vars == <<n, ngram_counts, prefix_counts, words, pc, ret, queries,
          suggestions, current_suggestion_idx, scores, user_input, cursor_pos,
          total_letter_keys_typed, total_tab_key_presses, running, key>>

---------------------------------------------------------------------------
(* Bounds of the model. *)

\* longest corpus text given to the constructor in ModelSpec
MaxCorpusLen == 3
\* largest order n given to the constructor in ModelSpec
MaxOrder == 3
\* longest word or prefix passed to a model query
MaxQueryLen == 2
\* largest top_k passed to predict_top_words in ModelSpec
MaxK == 2
\* model queries per behaviour of ModelSpec
MaxQueries == 1
\* longest input line of the session
MaxLen == 2
\* printable keys typed per session
MaxLetters == 2
\* TAB presses per session
MaxTabs == 2
\* longest enumerated input line handed to the helpers in HelperSpec
MaxTextLen == 3
\* largest letter count handed to calculate_scores in HelperSpec
MaxCount == 6
\* longest line typed in ScenarioSpec
MaxScenarioLen == 3

---------------------------------------------------------------------------
(* Python strings and slices. *)

Min(a, b) == IF a < b THEN a ELSE b
Max(a, b) == IF a > b THEN a ELSE b

\* s[i:j] for i >= 0 and j >= 0
Slice(s, i, j) == SubSeq(s, i + 1, Min(j, Len(s)))

\* s[:-1]
DropLast(s) == SubSeq(s, 1, Len(s) - 1)

\* c * k for a one-character string c (empty when k <= 0)
Repeat(c, k) == [i \in 1..Max(k, 0) |-> c]

\* str.startswith
StartsWith(w, p) == Len(p) <= Len(w) /\ SubSeq(w, 1, Len(p)) = p

\* the characters \s and str.split() treat as whitespace
IsSpace(c) == c \in {" ", "\n", "\t"}

\* str.split() with no argument: the maximal runs of non-whitespace
RECURSIVE SplitFrom(_, _, _)
SplitFrom(text, i, cur) ==
    IF i > Len(text)
    THEN IF cur = <<>> THEN <<>> ELSE <<cur>>
    ELSE IF IsSpace(text[i])
         THEN IF cur = <<>> THEN SplitFrom(text, i + 1, <<>>)
              ELSE <<cur>> \o SplitFrom(text, i + 1, <<>>)
         ELSE SplitFrom(text, i + 1, Append(cur, text[i]))

Split(text) == SplitFrom(text, 1, <<>>)

---------------------------------------------------------------------------
(* Floats obtained from counts, as rationals in lowest terms. *)

RECURSIVE Gcd(_, _)
Gcd(a, b) == IF b = 0 THEN a ELSE Gcd(b, a % b)

\* a / b for b > 0
Ratio(a, b) == IF a = 0 THEN <<0, 1>> ELSE <<a \div Gcd(a, b), b \div Gcd(a, b)>>

Zero == <<0, 1>>
One == <<1, 1>>

Times(x, y) == Ratio(x[1] * y[1], x[2] * y[2])

Greater(x, y) == x[1] * y[2] > y[1] * x[2]

---------------------------------------------------------------------------
(* collections.defaultdict(int) *)

EmptyDict == <<>>

\* d[k] read: the value
Lookup(d, k) == IF k \in DOMAIN d THEN d[k] ELSE 0

\* d[k] read: the dict afterwards (a missing key is inserted with 0)
Touch(d, k) == IF k \in DOMAIN d THEN d ELSE d @@ (k :> 0)

\* variant of Incr: a key is counted once, however often it is seen
Incr_once(d, k) == IF k \in DOMAIN d THEN d ELSE d @@ (k :> 1)

\* d[k] += 1
Incr(d, k) == IF k \in DOMAIN d THEN [d EXCEPT ![k] = @ + 1] ELSE d @@ (k :> 1)

---------------------------------------------------------------------------
(* NgramCharacterModel *)

START == "#"
END == "$"

\* ("#" * (n - 1)) + word + "$"
Padded(order, word) == Repeat(START, order - 1) \o word \o <<END>>

\* range(len(padded_word) - n + 1), as the set of its indices
WindowRange(order, padded) == 0 .. (Len(padded) - order)

\* padded_word[i : i + n]
Window(order, padded, i) == Slice(padded, i, i + order)

\* variant of train_windows: the window that ends the word is not counted
RECURSIVE train_windows_noend(_, _, _, _)
train_windows_noend(m, order, padded, i) ==
    IF i >= Len(padded) - order
    THEN m
    ELSE LET ngram == Window(order, padded, i)
             prefix == DropLast(ngram)
         IN  train_windows_noend([ng |-> Incr(m.ng, ngram), pf |-> Incr(m.pf, prefix)],
                                 order, padded, i + 1)

\* the inner loop of _train from index i on, over the dicts m = [ng, pf]
RECURSIVE train_windows(_, _, _, _)
train_windows(m, order, padded, i) ==
    IF i \notin WindowRange(order, padded)
    THEN m
    ELSE LET ngram == Window(order, padded, i)
             prefix == DropLast(ngram)
         IN  train_windows([ng |-> Incr(m.ng, ngram), pf |-> Incr(m.pf, prefix)],
                           order, padded, i + 1)

\* the outer loop of _train from token t on
RECURSIVE train_tokens(_, _, _, _)
train_tokens(m, order, tokens, t) ==
    IF t > Len(tokens)
    THEN m
    ELSE train_tokens(train_windows(m, order, Padded(order, tokens[t]), 0),
                      order, tokens, t + 1)

\* _train(corpus): the two dicts and the set of distinct words
train(corpus, order) ==
    LET tokens == Split(corpus)
        m == train_tokens([ng |-> EmptyDict, pf |-> EmptyDict], order, tokens, 1)
    IN  [ng |-> m.ng, pf |-> m.pf, vocab |-> {tokens[t] : t \in 1..Len(tokens)}]

\* the orders in which a set of strings may be iterated (fixed while the set is unchanged)
IterationOrders(S) ==
    {q \in [1..Cardinality(S) -> S] : \A i, j \in 1..Cardinality(S) : q[i] = q[j] => i = j}

\* math.log(prob) raises ValueError for prob = 0
LogRaises(count_ngram) == count_ngram = 0

\* the loop of _word_probability from index i on; acc is exp(log_prob) so far.
\* The result carries the dicts, which the two reads may have extended.
RECURSIVE word_probability_from(_, _, _, _, _)
word_probability_from(m, order, padded, i, acc) ==
    IF i \notin WindowRange(order, padded)
    THEN [ng |-> m.ng, pf |-> m.pf, kind |-> "float", val |-> acc]
    ELSE LET ngram == Window(order, padded, i)
             prefix == DropLast(ngram)
             count_ngram == Lookup(m.ng, ngram)
             count_prefix == Lookup(m.pf, prefix)
             m2 == [ng |-> Touch(m.ng, ngram), pf |-> Touch(m.pf, prefix)]
         IN  IF count_prefix = 0
             THEN [ng |-> m2.ng, pf |-> m2.pf, kind |-> "float", val |-> Zero]
             ELSE IF LogRaises(count_ngram)
                  THEN [ng |-> m2.ng, pf |-> m2.pf, kind |-> "ValueError", val |-> Zero]
                  ELSE word_probability_from(m2, order, padded, i + 1,
                                             Times(acc, Ratio(count_ngram, count_prefix)))

\* _word_probability(word) on the dicts m = [ng, pf]
word_probability(m, order, word) ==
    word_probability_from(m, order, Padded(order, word), 0, One)

\* [w for w in self.words if w.startswith(prefix)]
Candidates(vocab, prefix) == SelectSeq(vocab, LAMBDA w : StartsWith(w, prefix))

\* key(x) for each candidate in list order, threading the dicts; keys is the
\* sequence of the probabilities
RECURSIVE sort_keys(_, _, _, _, _)
sort_keys(m, order, cands, i, keys) ==
    IF i > Len(cands)
    THEN [ng |-> m.ng, pf |-> m.pf, keys |-> keys]
    ELSE LET r == word_probability(m, order, cands[i])
         IN  IF r.kind = "ValueError"
             THEN [ng |-> r.ng, pf |-> r.pf, keys |-> Append(keys, r.val), raised |-> TRUE]
             ELSE sort_keys([ng |-> r.ng, pf |-> r.pf], order, cands, i + 1,
                            Append(keys, r.val))

Raised(r) == "raised" \in DOMAIN r

\* variant of insert_desc: ascending order (reverse=True forgotten)
RECURSIVE insert_desc_asc(_, _, _, _)
insert_desc_asc(srt, keys, x, j) ==
    IF j > Len(srt) THEN Append(srt, x)
    ELSE IF Greater(keys[srt[j]], keys[x])
         THEN SubSeq(srt, 1, j - 1) \o <<x>> \o SubSeq(srt, j, Len(srt))
         ELSE insert_desc_asc(srt, keys, x, j + 1)

\* insert index x into the index list srt, after every entry whose key is >= keys[x]
RECURSIVE insert_desc(_, _, _, _)
insert_desc(srt, keys, x, j) ==
    IF j > Len(srt) THEN Append(srt, x)
    ELSE IF Greater(keys[x], keys[srt[j]])
         THEN SubSeq(srt, 1, j - 1) \o <<x>> \o SubSeq(srt, j, Len(srt))
         ELSE insert_desc(srt, keys, x, j + 1)

\* variant of sort_desc: the candidates stay in the order of the vocabulary
sort_desc_asis(srt, keys, x) == [i \in 1..Len(keys) |-> i]

\* list.sort(key=..., reverse=True): stable, descending; the sorted index list
RECURSIVE sort_desc(_, _, _)
sort_desc(srt, keys, x) ==
    IF x > Len(keys) THEN srt
    ELSE sort_desc(insert_desc(srt, keys, x, 1), keys, x + 1)

\* variant of predict_top_words: the sorted list is returned whole
predict_top_words_all(m, order, vocab, prefix, top_k) ==
    LET cands == Candidates(vocab, prefix)
    IN  IF cands = <<>>
        THEN [ng |-> m.ng, pf |-> m.pf, kind |-> "list", val |-> <<>>]
        ELSE LET k == sort_keys(m, order, cands, 1, <<>>)
             IN  IF Raised(k)
                 THEN [ng |-> k.ng, pf |-> k.pf, kind |-> "ValueError", val |-> <<>>]
                 ELSE LET srt == sort_desc(<<>>, k.keys, 1)
                          sorted == [i \in 1..Len(srt) |-> cands[srt[i]]]
                      IN  [ng |-> k.ng, pf |-> k.pf, kind |-> "list", val |-> sorted]

\* predict_top_words(prefix, top_k), top_k >= 0
predict_top_words(m, order, vocab, prefix, top_k) ==
    LET cands == Candidates(vocab, prefix)
    IN  IF cands = <<>>
        THEN [ng |-> m.ng, pf |-> m.pf, kind |-> "list", val |-> <<>>]
        ELSE LET k == sort_keys(m, order, cands, 1, <<>>)
             IN  IF Raised(k)
                 THEN [ng |-> k.ng, pf |-> k.pf, kind |-> "ValueError", val |-> <<>>]
                 ELSE LET srt == sort_desc(<<>>, k.keys, 1)
                          sorted == [i \in 1..Len(srt) |-> cands[srt[i]]]
                      IN  [ng |-> k.ng, pf |-> k.pf, kind |-> "list",
                           val |-> Slice(sorted, 0, top_k)]

\* variant of max_index: the first candidate, whatever its key
max_index_first(keys, best, x) == 1

\* max(candidates, key=...): the first candidate of greatest key
RECURSIVE max_index(_, _, _)
max_index(keys, best, x) ==
    IF x > Len(keys) THEN best
    ELSE max_index(keys, IF Greater(keys[x], keys[best]) THEN x ELSE best, x + 1)

\* _generate_word(prefix)
generate_word(m, order, vocab, prefix) ==
    LET cands == Candidates(vocab, prefix)
    IN  IF cands = <<>>
        THEN [ng |-> m.ng, pf |-> m.pf, kind |-> "str", val |-> prefix]
        ELSE LET k == sort_keys(m, order, cands, 1, <<>>)
             IN  IF Raised(k)
                 THEN [ng |-> k.ng, pf |-> k.pf, kind |-> "ValueError", val |-> <<>>]
                 ELSE [ng |-> k.ng, pf |-> k.pf, kind |-> "str",
                       val |-> cands[max_index(k.keys, 1, 2)]]

---------------------------------------------------------------------------
(* The model as an object: construction and queries (ModelSpec). *)

\* all strings over alphabet A of length at most k
StringsUpTo(A, k) == UNION {[1..l -> A] : l \in 0..k}

\* longer corpus texts, with words that share a prefix and words that repeat
ExtraCorpora ==
    { <<"a", "\n", "a", "b">>,
      <<"a", "b", " ", "a", " ", "a", "b">> }

\* corpus texts handed to the constructor
Corpora == StringsUpTo({"a", "b", " "}, MaxCorpusLen) \cup ExtraCorpora

\* orders handed to the constructor
Orders == 0..MaxOrder

\* words and prefixes handed to the queries
QueryWords == StringsUpTo({"a", "b"}, MaxQueryLen)

NoRet == [op |-> "none", arg |-> <<>>, kind |-> "none", val |-> <<>>]

\* the dicts of the model, as the operators above take them
Model == [ng |-> ngram_counts, pf |-> prefix_counts]

\* TerminalUI.__init__
SessionInit ==
    /\ suggestions = <<>>
    /\ current_suggestion_idx = 0
    /\ scores = <<>>
    /\ user_input = <<>>
    /\ cursor_pos = 0
    /\ total_letter_keys_typed = 0
    /\ total_tab_key_presses = 0

ModelInit ==
    /\ pc = "new"
    /\ n = 0
    /\ ngram_counts = EmptyDict
    /\ prefix_counts = EmptyDict
    /\ words = <<>>
    /\ ret = NoRet
    /\ queries = 0
    /\ SessionInit
    /\ running = FALSE
    /\ key = 0

\* NgramCharacterModel(corpus, order)
Construct(corpus, order) ==
    /\ pc = "new"
    /\ \E t \in {train(corpus, order)} :
           /\ n' = order
           /\ ngram_counts' = t.ng
           /\ prefix_counts' = t.pf
           /\ words' \in IterationOrders(t.vocab)
    /\ pc' = "trained"
    /\ ret' = [op |-> "construct", arg |-> corpus, kind |-> "model", val |-> <<>>]
    /\ UNCHANGED <<queries, uiVars>>

\* model._word_probability(w)
QueryProbability(w) ==
    /\ pc = "trained"
    /\ queries < MaxQueries
    /\ \E r \in {word_probability(Model, n, w)} :
           /\ ngram_counts' = r.ng
           /\ prefix_counts' = r.pf
           /\ ret' = [op |-> "probability", arg |-> w, kind |-> r.kind, val |-> r.val]
    /\ queries' = queries + 1
    /\ UNCHANGED <<n, words, pc, uiVars>>

\* model.predict_top_words(p, k)
QueryPredict(p, k) ==
    /\ pc = "trained"
    /\ queries < MaxQueries
    /\ \E r \in {predict_top_words(Model, n, words, p, k)} :
           /\ ngram_counts' = r.ng
           /\ prefix_counts' = r.pf
           /\ ret' = [op |-> "predict", arg |-> p, kind |-> r.kind, val |-> r.val,
                      top_k |-> k]
    /\ queries' = queries + 1
    /\ UNCHANGED <<n, words, pc, uiVars>>

\* model._generate_word(p)
QueryGenerate(p) ==
    /\ pc = "trained"
    /\ queries < MaxQueries
    /\ \E r \in {generate_word(Model, n, words, p)} :
           /\ ngram_counts' = r.ng
           /\ prefix_counts' = r.pf
           /\ ret' = [op |-> "generate", arg |-> p, kind |-> r.kind, val |-> r.val]
    /\ queries' = queries + 1
    /\ UNCHANGED <<n, words, pc, uiVars>>

ModelNext ==
    \/ \E corpus \in Corpora, order \in Orders : Construct(corpus, order)
    \/ \E w \in QueryWords : QueryProbability(w)
    \/ \E p \in QueryWords, k \in 0..MaxK : QueryPredict(p, k)
    \/ \E p \in QueryWords : QueryGenerate(p)

ModelSpec == ModelInit /\ [][ModelNext]_vars

---------------------------------------------------------------------------
(* TerminalUI: the pure helpers. *)

\* variant of calculate_scores: the averages are per character of the line
calculate_scores_perchar(text, letters, tabs) ==
    LET num_words == Len(text)
    IN  IF num_words > 0
        THEN <<letters, tabs, Ratio(letters, num_words), Ratio(tabs, num_words)>>
        ELSE <<letters, tabs, Zero, Zero>>

\* calculate_scores(text), with the two counters as they are when it is called
\* (text.strip().split() and text.split() give the same list)
calculate_scores(text, letters, tabs) ==
    LET num_words == Len(Split(text))
    IN  IF num_words > 0
        THEN <<letters, tabs, Ratio(letters, num_words), Ratio(tabs, num_words)>>
        ELSE <<letters, tabs, Zero, Zero>>

\* length of the longest suffix of t without whitespace
RECURSIVE SuffixRun(_)
SuffixRun(t) ==
    IF t = <<>> \/ IsSpace(t[Len(t)]) THEN 0 ELSE 1 + SuffixRun(DropLast(t))

\* len(match.group(0)) for re.search(r"[^\s]*$", t): $ matches at the end of t
\* and also just before a final newline
MatchLen(t) ==
    IF t # <<>> /\ t[Len(t)] = "\n" THEN SuffixRun(DropLast(t)) ELSE SuffixRun(t)

\* variant of find_last_word_start: the word starts where the line starts
find_last_word_start_line(text, cur) == 0

\* find_last_word_start(text, cursor_pos)
find_last_word_start(text, cur) ==
    IF cur = 0 THEN 0 ELSE cur - MatchLen(Slice(text, 0, cur))

\* get_current_word() on user_input = text, cursor_pos = cur
get_current_word(text, cur) == Slice(text, find_last_word_start(text, cur), cur)

\* variant of replace_current_word: the text after the cursor is dropped
replace_current_word_nosuffix(text, cur, new_word) ==
    LET word_start == find_last_word_start(text, cur)
    IN  [text |-> Slice(text, 0, word_start) \o new_word,
         cur |-> word_start + Len(new_word)]

\* replace_current_word(new_word): the new user_input and cursor_pos
replace_current_word(text, cur, new_word) ==
    LET word_start == find_last_word_start(text, cur)
    IN  [text |-> Slice(text, 0, word_start) \o new_word \o Slice(text, cur, Len(text)),
         cur |-> word_start + Len(new_word)]

---------------------------------------------------------------------------
(* TerminalUI.run and TerminalUI.handle_input (Spec). *)

\* key codes
KEY_RESIZE == 410
KEY_BACKSPACE == 263
KEY_LEFT == 260
KEY_RIGHT == 261
ESC == 27
TAB == 9
ENTER == 10
DEL == 127
BS == 8
PRINTABLE_MIN == 32
PRINTABLE_MAX == 126
\* default top_k of predict_top_words
TOP_K == 10
\* n = 2 in __main__
MAIN_N == 2
\* `key` before the first getch()
NoKey == 0

\* chr(key), for the printable keys of the model
Chr(k) ==
    CASE k = 32 -> " " [] k = 97 -> "a" [] k = 98 -> "b" [] k = 99 -> "c" [] k = 116 -> "t"

\* what getch() may return: the keys handle_input names, the printable " ", "a"
\* and "b", and 259 (the up arrow), which handle_input does not name
Keys == {KEY_RESIZE, ESC, TAB, ENTER, KEY_BACKSPACE, DEL, BS, KEY_LEFT, KEY_RIGHT,
         32, 97, 98, 259}

\* corpus files the program is started on
SessionCorpora ==
    { <<>>,
      <<"a", "\n", "a", "b">> }

\* __main__: model = NgramCharacterModel(corpus, 2); ui = TerminalUI(model); ui.run()
Init ==
    /\ \E corpus \in SessionCorpora :
         LET t == train(corpus, MAIN_N)
         IN  /\ n = MAIN_N
             /\ ngram_counts = t.ng
             /\ prefix_counts = t.pf
             /\ words \in IterationOrders(t.vocab)
    /\ pc = "trained"
    /\ ret = NoRet
    /\ queries = 0
    /\ SessionInit
    /\ running = TRUE
    /\ key = NoKey

\* variant of LoopCondition: the loop goes on reading keys after quit
LoopCondition_always == TRUE

\* `while running:` of run()
LoopCondition == running

\* variant of Requery: the word is taken at the cursor as it was before the edit
Requery_stale(text, cur) ==
    predict_top_words(Model, n, words, get_current_word(user_input, cursor_pos), TOP_K)

\* self.prediction_model.predict_top_words(current_word) after the edit
Requery(text, cur) ==
    predict_top_words(Model, n, words, get_current_word(text, cur), TOP_K)

\* the assignments that follow an edit of handle_input: text and cur are the new
\* user_input and cursor_pos, letters the new letter count; withScores says
\* whether the branch ends with self.scores = self.calculate_scores(...).
\* A ValueError out of predict_top_words leaves handle_input and run().
AfterEdit(text, cur, letters, withScores) ==
    \E r \in {Requery(text, cur)} :
        /\ user_input' = text
        /\ cursor_pos' = cur
        /\ total_letter_keys_typed' = letters
        /\ ngram_counts' = r.ng
        /\ prefix_counts' = r.pf
        /\ IF r.kind = "ValueError"
           THEN /\ UNCHANGED <<suggestions, current_suggestion_idx, scores>>
                /\ running' = FALSE
           ELSE /\ suggestions' = r.val
                /\ current_suggestion_idx' = 0
                /\ scores' = IF withScores
                             THEN calculate_scores(text, letters, total_tab_key_presses)
                             ELSE scores
                /\ running' = TRUE

\* if key == curses.KEY_RESIZE: return True
KeyResize(k) ==
    /\ LoopCondition
    /\ k = KEY_RESIZE
    /\ key' = k
    /\ running' = TRUE
    /\ UNCHANGED <<modelVars, ret, queries, suggestions, current_suggestion_idx, scores,
                   user_input, cursor_pos, total_letter_keys_typed, total_tab_key_presses>>

\* if key == 27: return False
KeyEsc(k) ==
    /\ LoopCondition
    /\ k = ESC
    /\ key' = k
    /\ running' = FALSE
    /\ UNCHANGED <<modelVars, ret, queries, suggestions, current_suggestion_idx, scores,
                   user_input, cursor_pos, total_letter_keys_typed, total_tab_key_presses>>

\* variant of NextSuggestionIdx: no wrap at the end of the list
NextSuggestionIdx_nowrap(idx, len) == Min(idx + 1, len - 1)

\* the index TAB moves to
NextSuggestionIdx(idx, len) == (idx + 1) % len

\* variant of KeyTab: a TAB without suggestions is not counted
KeyTab_uncounted(k) ==
    /\ LoopCondition
    /\ k = TAB
    /\ total_tab_key_presses < MaxTabs
    /\ key' = k
    /\ current_suggestion_idx' =
         IF suggestions # <<>>
         THEN NextSuggestionIdx(current_suggestion_idx, Len(suggestions))
         ELSE current_suggestion_idx
    /\ total_tab_key_presses' =
         IF suggestions # <<>> THEN total_tab_key_presses + 1 ELSE total_tab_key_presses
    /\ running' = TRUE
    /\ UNCHANGED <<modelVars, ret, queries, suggestions, scores, user_input, cursor_pos,
                   total_letter_keys_typed>>

\* if key == 9
KeyTab(k) ==
    /\ LoopCondition
    /\ k = TAB
    /\ total_tab_key_presses < MaxTabs
    /\ key' = k
    /\ current_suggestion_idx' =
         IF suggestions # <<>>
         THEN NextSuggestionIdx(current_suggestion_idx, Len(suggestions))
         ELSE current_suggestion_idx
    /\ total_tab_key_presses' = total_tab_key_presses + 1
    /\ running' = TRUE
    /\ UNCHANGED <<modelVars, ret, queries, suggestions, scores, user_input, cursor_pos,
                   total_letter_keys_typed>>

\* the condition of ENTER's if
EnterAccepts == suggestions # <<>> /\ current_suggestion_idx < Len(suggestions)

\* variant of EnterResult: the current word is replaced even without a suggestion
EnterResult_always ==
    replace_current_word(user_input, cursor_pos,
                         IF EnterAccepts THEN suggestions[current_suggestion_idx + 1]
                         ELSE <<>>)

\* the user_input and cursor_pos ENTER leaves
EnterResult ==
    IF EnterAccepts
    THEN replace_current_word(user_input, cursor_pos, suggestions[current_suggestion_idx + 1])
    ELSE [text |-> user_input, cur |-> cursor_pos]

\* if key == 10
KeyEnter(k) ==
    /\ LoopCondition
    /\ k = ENTER
    /\ Len(EnterResult.text) <= MaxLen
    /\ key' = k
    /\ user_input' = EnterResult.text
    /\ cursor_pos' = EnterResult.cur
    /\ suggestions' = IF EnterAccepts THEN <<>> ELSE suggestions
    /\ current_suggestion_idx' = IF EnterAccepts THEN 0 ELSE current_suggestion_idx
    /\ running' = TRUE
    /\ UNCHANGED <<modelVars, ret, queries, scores, total_letter_keys_typed,
                   total_tab_key_presses>>

\* variant of delete_char: the character under the cursor is removed
delete_char_under(text, cur) == Slice(text, 0, cur) \o Slice(text, cur + 1, Len(text))

\* user_input[:cursor_pos - 1] + user_input[cursor_pos:]
delete_char(text, cur) == Slice(text, 0, cur - 1) \o Slice(text, cur, Len(text))

\* if key in (curses.KEY_BACKSPACE, 127, 8)
KeyBackspace(k) ==
    /\ LoopCondition
    /\ k \in {KEY_BACKSPACE, DEL, BS}
    /\ key' = k
    /\ IF cursor_pos > 0
       THEN AfterEdit(delete_char(user_input, cursor_pos),
                      cursor_pos - 1, total_letter_keys_typed, TRUE)
       ELSE /\ running' = TRUE
            /\ UNCHANGED <<ngram_counts, prefix_counts, suggestions, current_suggestion_idx,
                           scores, user_input, cursor_pos, total_letter_keys_typed>>
    /\ UNCHANGED <<n, words, pc, ret, queries, total_tab_key_presses>>

\* variant of LeftMoves: no check of the left end
LeftMoves_always == TRUE

\* whether KEY_LEFT moves the cursor
LeftMoves == cursor_pos > 0

\* if key == curses.KEY_LEFT
KeyLeft(k) ==
    /\ LoopCondition
    /\ k = KEY_LEFT
    /\ key' = k
    /\ IF LeftMoves
       THEN AfterEdit(user_input, cursor_pos - 1, total_letter_keys_typed, FALSE)
       ELSE /\ running' = TRUE
            /\ UNCHANGED <<ngram_counts, prefix_counts, suggestions, current_suggestion_idx,
                           scores, user_input, cursor_pos, total_letter_keys_typed>>
    /\ UNCHANGED <<n, words, pc, ret, queries, total_tab_key_presses>>

\* whether KEY_RIGHT moves the cursor
RightMoves == cursor_pos < Len(user_input)

\* if key == curses.KEY_RIGHT
KeyRight(k) ==
    /\ LoopCondition
    /\ k = KEY_RIGHT
    /\ key' = k
    /\ IF RightMoves
       THEN AfterEdit(user_input, cursor_pos + 1, total_letter_keys_typed, FALSE)
       ELSE /\ running' = TRUE
            /\ UNCHANGED <<ngram_counts, prefix_counts, suggestions, current_suggestion_idx,
                           scores, user_input, cursor_pos, total_letter_keys_typed>>
    /\ UNCHANGED <<n, words, pc, ret, queries, total_tab_key_presses>>

\* the keys of the earlier ifs of handle_input
Recognised == {KEY_RESIZE, ESC, TAB, ENTER, KEY_BACKSPACE, DEL, BS, KEY_LEFT, KEY_RIGHT}

\* variant of insert_char: the character is added at the end of the line
insert_char_atend(text, cur, c) == text \o <<c>>

\* user_input[:cursor_pos] + char + user_input[cursor_pos:]
insert_char(text, cur, c) == Slice(text, 0, cur) \o <<c>> \o Slice(text, cur, Len(text))

\* if 32 <= key <= 126: the branch itself
InsertChar(k) ==
    /\ LoopCondition
    /\ k \notin Recognised
    /\ PRINTABLE_MIN <= k /\ k <= PRINTABLE_MAX
    /\ key' = k
    /\ AfterEdit(insert_char(user_input, cursor_pos, Chr(k)),
                 cursor_pos + 1, total_letter_keys_typed + 1, TRUE)
    /\ UNCHANGED <<n, words, pc, ret, queries, total_tab_key_presses>>

\* if 32 <= key <= 126, within the bounds of the session
KeyPrintable(k) ==
    /\ Len(user_input) < MaxLen
    /\ total_letter_keys_typed < MaxLetters
    /\ InsertChar(k)

\* any other key: the final return True
KeyOther(k) ==
    /\ LoopCondition
    /\ k \notin Recognised
    /\ ~(PRINTABLE_MIN <= k /\ k <= PRINTABLE_MAX)
    /\ key' = k
    /\ running' = TRUE
    /\ UNCHANGED <<modelVars, ret, queries, suggestions, current_suggestion_idx, scores,
                   user_input, cursor_pos, total_letter_keys_typed, total_tab_key_presses>>

\* running = self.handle_input(key), for the key getch() returned
handle_input(k) ==
    \/ KeyResize(k)
    \/ KeyEsc(k)
    \/ KeyTab(k)
    \/ KeyEnter(k)
    \/ KeyBackspace(k)
    \/ KeyLeft(k)
    \/ KeyRight(k)
    \/ KeyPrintable(k)
    \/ KeyOther(k)

Next == \E k \in Keys : handle_input(k)

Spec == Init /\ [][Next]_vars

---------------------------------------------------------------------------
(* A session over a vocabulary of more than top_k words (WideSpec). *)

\* the eleven words of the corpus file, one per line
WideWords ==
    << <<"a">>, <<"b">>, <<"c">>, <<"d">>, <<"e">>, <<"f">>, <<"g">>, <<"h">>,
       <<"i">>, <<"j">>, <<"a", "a">> >>

\* the text of the corpus file from word i on
RECURSIVE WideCorpusFrom(_)
WideCorpusFrom(i) ==
    IF i > Len(WideWords) THEN <<>> ELSE WideWords[i] \o <<"\n">> \o WideCorpusFrom(i + 1)

WideCorpus == WideCorpusFrom(1)

\* two of the orders in which the set of the eleven words may be iterated: as
\* in the file, and reversed
WideOrders ==
    {WideWords, [i \in 1..Len(WideWords) |-> WideWords[Len(WideWords) + 1 - i]]}

\* __main__ on the corpus file of the eleven words
WideInit ==
    /\ \E t \in {train(WideCorpus, MAIN_N)} :
           /\ n = MAIN_N
           /\ ngram_counts = t.ng
           /\ prefix_counts = t.pf
           /\ words \in {q \in WideOrders : {q[i] : i \in 1..Len(q)} = t.vocab}
    /\ pc = "trained"
    /\ ret = NoRet
    /\ queries = 0
    /\ SessionInit
    /\ running = TRUE
    /\ key = NoKey

\* the keys pressed in this session: those that edit the line, move the cursor
\* or act on the suggestions, with the blank and "a" as printable keys
WideKeys == {TAB, ENTER, KEY_BACKSPACE, KEY_LEFT, KEY_RIGHT, 32, 97}

\* running = self.handle_input(key), for a key of WideKeys
WideNext ==
    \E k \in WideKeys :
        \/ KeyTab(k)
        \/ KeyEnter(k)
        \/ KeyBackspace(k)
        \/ KeyLeft(k)
        \/ KeyRight(k)
        \/ KeyPrintable(k)

WideSpec == WideInit /\ [][WideNext]_vars

---------------------------------------------------------------------------
(* A session of typing over the corpus "cat cats catalog" (ScenarioSpec). *)

ScenarioCorpus ==
    <<"c", "a", "t", " ", "c", "a", "t", "s", " ", "c", "a", "t", "a", "l", "o", "g">>

\* the keys typed: c, a, t
ScenarioKeys == {99, 97, 116}

\* __main__ on a corpus file that holds ScenarioCorpus
ScenarioInit ==
    /\ \E t \in {train(ScenarioCorpus, MAIN_N)} :
           /\ n = MAIN_N
           /\ ngram_counts = t.ng
           /\ prefix_counts = t.pf
           /\ words \in IterationOrders(t.vocab)
    /\ pc = "trained"
    /\ ret = NoRet
    /\ queries = 0
    /\ SessionInit
    /\ running = TRUE
    /\ key = NoKey

\* handle_input on one of the keys c, a, t
ScenarioType(k) ==
    /\ Len(user_input) < MaxScenarioLen
    /\ InsertChar(k)

ScenarioNext == \E k \in ScenarioKeys : ScenarioType(k)

ScenarioSpec == ScenarioInit /\ [][ScenarioNext]_vars

---------------------------------------------------------------------------
(* TerminalUI: the helpers called on their own (HelperSpec). *)

\* longer input lines
ExtraBuffers ==
    { <<"h", "e", "l", "l", "o", " ", "w", "o", "r", "l", "d">>,
      <<" ", "a", "b", " ", " ", "a", " ">> }

\* input lines the session can hold: printable characters only, as handle_input
\* inserts nothing else and a suggestion is a token of corpus.split()
Buffers == StringsUpTo({"a", " "}, MaxTextLen) \cup ExtraBuffers

\* a TerminalUI with some line, cursor and counters; a line that is not empty
\* has had at least one printable key typed
HelperInit ==
    /\ n = MAIN_N
    /\ ngram_counts = EmptyDict
    /\ prefix_counts = EmptyDict
    /\ words = <<>>
    /\ pc = "helpers"
    /\ ret = NoRet
    /\ queries = 0
    /\ suggestions = <<>>
    /\ current_suggestion_idx = 0
    /\ scores = <<>>
    /\ user_input \in Buffers
    /\ cursor_pos \in 0..Len(user_input)
    /\ total_letter_keys_typed \in 0..MaxCount
    /\ user_input # <<>> => total_letter_keys_typed > 0
    /\ total_tab_key_presses \in 0..MaxTabs
    /\ running = FALSE
    /\ key = NoKey

\* self.scores = self.calculate_scores(self.user_input)
CallCalculateScores ==
    /\ pc = "helpers"
    /\ \E r \in {calculate_scores(user_input, total_letter_keys_typed,
                                   total_tab_key_presses)} :
           /\ scores' = r
           /\ ret' = [op |-> "calculate_scores", arg |-> user_input, kind |-> "list",
                      val |-> r]
    /\ UNCHANGED <<modelVars, queries, suggestions, current_suggestion_idx, user_input,
                   cursor_pos, total_letter_keys_typed, total_tab_key_presses, running, key>>

\* self.find_last_word_start(self.user_input, self.cursor_pos)
CallFindLastWordStart ==
    /\ pc = "helpers"
    /\ ret' = [op |-> "find_last_word_start", arg |-> user_input, kind |-> "int",
               val |-> find_last_word_start(user_input, cursor_pos)]
    /\ UNCHANGED <<modelVars, queries, uiVars>>

\* self.get_current_word()
CallGetCurrentWord ==
    /\ pc = "helpers"
    /\ ret' = [op |-> "get_current_word", arg |-> user_input, kind |-> "str",
               val |-> get_current_word(user_input, cursor_pos)]
    /\ UNCHANGED <<modelVars, queries, uiVars>>

HelperNext ==
    \/ CallCalculateScores
    \/ CallFindLastWordStart
    \/ CallGetCurrentWord

HelperSpec == HelperInit /\ [][HelperNext]_vars

---------------------------------------------------------------------------
(* Properties of the session (Spec). *)

sessionVars == <<user_input, cursor_pos, suggestions, current_suggestion_idx,
                 total_letter_keys_typed, total_tab_key_presses>>

\* text[i:cur] holds no whitespace
NoSpaceIn(text, i, cur) == \A x \in (i + 1)..cur : ~IsSpace(text[x])

\* start of the current word: the least i with no whitespace in text[i:cur]
CurrentWordStart(text, cur) ==
    CHOOSE i \in 0..cur :
        NoSpaceIn(text, i, cur) /\ \A j \in 0..(i - 1) : ~NoSpaceIn(text, j, cur)

\* the current word at the cursor
CurrentWord(text, cur) == SubSeq(text, CurrentWordStart(text, cur) + 1, cur)

\* the model's ranked top-k list for a prefix, with the default k
RankedTopK(prefix) == predict_top_words(Model, n, words, prefix, TOP_K).val

\* C1: Terminated is absorbing. Once quit (ESC) has been dispatched the loop of
\* run() has ended, and no later step changes buffer, cursor, suggestions,
\* cycleIndex, lettersTyped or tabPresses.
C1_TerminatedAbsorbing == [][~running => UNCHANGED sessionVars]_vars

\* C1 witness: the session was quit after the line had been edited.
C1_QuitAfterEditing == ~running /\ key = ESC /\ user_input # <<>> /\ suggestions # <<>>

\* C2 as stated: after every cursor-left or cursor-right event, moved or clamped,
\* suggestions is the ranked top-k of the current word and cycleIndex is 0.
C2_RequeryAfterEveryMove ==
    key \in {KEY_LEFT, KEY_RIGHT} =>
        /\ suggestions = RankedTopK(CurrentWord(user_input, cursor_pos))
        /\ current_suggestion_idx = 0

\* C2 amended: a cursor-left or cursor-right event that moves the cursor leaves
\* suggestions equal to the ranked top-k of the current word at the new cursor and
\* cycleIndex 0; one that finds the cursor at 0 (left) or at len(buffer) (right)
\* leaves buffer, cursor, suggestions and cycleIndex as they were.
C2_RequeryAfterMove ==
    [][key' \in {KEY_LEFT, KEY_RIGHT} =>
         IF cursor_pos' # cursor_pos
         THEN /\ cursor_pos' = cursor_pos + (IF key' = KEY_LEFT THEN -1 ELSE 1)
              /\ user_input' = user_input
              /\ suggestions' = RankedTopK(CurrentWord(user_input', cursor_pos'))
              /\ current_suggestion_idx' = 0
         ELSE /\ cursor_pos = (IF key' = KEY_LEFT THEN 0 ELSE Len(user_input))
              /\ UNCHANGED <<user_input, suggestions, current_suggestion_idx>>]_vars

\* C2 witness: cursor-left moved the cursor into a line and candidates were found
\* after a suggestion had been cycled to.
C2_MovedLeft ==
    /\ key = KEY_LEFT
    /\ cursor_pos > 0
    /\ cursor_pos < Len(user_input)
    /\ Len(suggestions) >= 2
    /\ total_tab_key_presses > 0

\* C3 as stated: the stored scores are (0, 0, 0.0, 0.0) initially and, after every
\* dispatched key event, equal calculate_scores of the current counters and buffer.
C3_ScoresCurrent ==
    IF key = NoKey
    THEN scores = <<0, 0, Zero, Zero>>
    ELSE scores = calculate_scores(user_input, total_letter_keys_typed,
                                   total_tab_key_presses)

\* C7: ENTER with a suggestion selected replaces the current word: with s the
\* selected suggestion and ws the start of the current word, buffer becomes
\* buffer[0:ws] + s + buffer[cursor:], cursor becomes ws + len(s), suggestions
\* becomes empty, cycleIndex 0, and the two counters are unchanged.
C7_AcceptReplacesWord ==
    [][(key' = ENTER /\ suggestions # <<>>
          /\ current_suggestion_idx < Len(suggestions)) =>
         LET s == suggestions[current_suggestion_idx + 1]
             ws == CurrentWordStart(user_input, cursor_pos)
         IN  /\ user_input' = SubSeq(user_input, 1, ws) \o s
                                \o SubSeq(user_input, cursor_pos + 1, Len(user_input))
             /\ cursor_pos' = ws + Len(s)
             /\ suggestions' = <<>>
             /\ current_suggestion_idx' = 0
             /\ UNCHANGED <<total_letter_keys_typed, total_tab_key_presses>>]_vars

\* C7 witness: a suggestion was accepted in the middle of the line (the line is
\* longer than what was typed, and text follows the cursor).
C7_AcceptedMidLine ==
    /\ key = ENTER
    /\ suggestions = <<>>
    /\ Len(user_input) > total_letter_keys_typed
    /\ cursor_pos < Len(user_input)

\* C8: ENTER with no suggestions changes nothing: buffer, cursor, cycleIndex, the
\* two counters (and the empty suggestions) are as before.
C8_AcceptWithoutSuggestions ==
    [][(key' = ENTER /\ suggestions = <<>>) => UNCHANGED sessionVars]_vars

\* C8 witness: ENTER was dispatched on a typed word that has no candidate.
C8_EnterOnNoCandidate ==
    /\ key = ENTER
    /\ suggestions = <<>>
    /\ user_input # <<>>
    /\ Len(user_input) = total_letter_keys_typed
    /\ RankedTopK(CurrentWord(user_input, cursor_pos)) = <<>>

\* C9: TAB with suggestions sets cycleIndex to (cycleIndex + 1) mod
\* len(suggestions) and leaves suggestions, buffer and cursor unchanged.
C9_CycleWraps ==
    [][(key' = TAB /\ suggestions # <<>>) =>
         /\ current_suggestion_idx' =
              (current_suggestion_idx + 1) % Len(suggestions)
         /\ UNCHANGED <<suggestions, user_input, cursor_pos>>]_vars

\* C9 witness: len(suggestions) TABs in a row brought cycleIndex round to 0.
C9_Wrapped ==
    /\ key = TAB
    /\ Len(suggestions) >= 2
    /\ current_suggestion_idx = 0
    /\ total_tab_key_presses >= Len(suggestions)

\* C10: in every reachable state 0 <= cursor <= len(buffer), and cycleIndex is 0
\* when suggestions is empty and an index of suggestions otherwise.
C10_CursorAndIndexInRange ==
    /\ 0 <= cursor_pos /\ cursor_pos <= Len(user_input)
    /\ IF suggestions = <<>>
       THEN current_suggestion_idx = 0
       ELSE 0 <= current_suggestion_idx /\ current_suggestion_idx < Len(suggestions)

\* C10 witness: the cursor at the end of the line and cycleIndex on the last
\* suggestion.
C10_AtTheEdges ==
    /\ cursor_pos = Len(user_input)
    /\ cursor_pos > 0
    /\ Len(suggestions) >= 2
    /\ current_suggestion_idx = Len(suggestions) - 1

\* C11: the two counters never decrease. lettersTyped grows by exactly 1 on each
\* printable key (32..126, space included) and is changed by no other event;
\* tabPresses grows by exactly 1 on each TAB, with or without suggestions, and is
\* changed by no other event (so not by backspace or ENTER).
C11_CountersCountKeys ==
    [][/\ total_letter_keys_typed' = total_letter_keys_typed
            + (IF key' \in PRINTABLE_MIN..PRINTABLE_MAX THEN 1 ELSE 0)
       /\ total_tab_key_presses' = total_tab_key_presses
            + (IF key' = TAB THEN 1 ELSE 0)]_vars

\* C11 witness: a space was typed, a letter was removed by backspace, and TAB was
\* then pressed with no suggestions on display.
C11_TabWithoutSuggestions ==
    /\ key = TAB
    /\ suggestions = <<>>
    /\ total_tab_key_presses >= 1
    /\ total_letter_keys_typed = 2
    /\ user_input = <<" ">>

\* the key codes handle_input gives a meaning of their own
NamedKeys == {8, 9, 10, 27, 127, KEY_BACKSPACE, KEY_LEFT, KEY_RIGHT, KEY_RESIZE}

\* C19: a key code in 32..126 inserts its character c at the cursor (buffer
\* becomes old[0:cursor] + c + old[cursor:]), advances the cursor by exactly 1,
\* recomputes suggestions as the ranked top-k of the new current word and sets
\* cycleIndex to 0; a key code outside 32..126 that is none of backspace, left,
\* right, TAB, ENTER, ESC, resize leaves buffer, cursor, suggestions, cycleIndex
\* and both counters unchanged.
C19_InsertAtCursor ==
    [][/\ (32 <= key' /\ key' <= 126) =>
            /\ user_input' = SubSeq(user_input, 1, cursor_pos) \o <<Chr(key')>>
                               \o SubSeq(user_input, cursor_pos + 1, Len(user_input))
            /\ cursor_pos' = cursor_pos + 1
            /\ suggestions' = RankedTopK(CurrentWord(user_input', cursor_pos'))
            /\ current_suggestion_idx' = 0
       /\ (~(32 <= key' /\ key' <= 126) /\ key' \notin NamedKeys) =>
            UNCHANGED sessionVars]_vars

\* C19 witness: "a" was typed in front of "b", in the middle of the line after
\* the insertion, and two candidates were found for it.
C19_InsertedMidLine ==
    /\ key = 97
    /\ user_input = <<"a", "b">>
    /\ cursor_pos = 1
    /\ Len(suggestions) = 2

\* C20: backspace with the cursor at 0 changes nothing; with cursor > 0 it turns
\* the buffer into old[0:cursor-1] + old[cursor:], decrements the cursor by
\* exactly 1, recomputes suggestions for the new current word and sets
\* cycleIndex to 0. Hence a backspace right after insertChar(c) restores the
\* buffer and cursor that insertChar(c) found.
C20_BackspaceRemovesBefore ==
    [][key' \in {KEY_BACKSPACE, 127, 8} =>
         IF cursor_pos = 0
         THEN UNCHANGED sessionVars
         ELSE /\ user_input' = SubSeq(user_input, 1, cursor_pos - 1)
                                 \o SubSeq(user_input, cursor_pos + 1, Len(user_input))
              /\ cursor_pos' = cursor_pos - 1
              /\ suggestions' = RankedTopK(CurrentWord(user_input', cursor_pos'))
              /\ current_suggestion_idx' = 0
              /\ (32 <= key /\ key <= 126) =>
                     user_input = SubSeq(user_input', 1, cursor_pos') \o <<Chr(key)>>
                                    \o SubSeq(user_input', cursor_pos' + 1, Len(user_input'))]_vars

\* C20 witness: "a" and one more character were typed and the second was
\* removed again: the line is "a" with the cursor after it.
C20_TypedAndRemoved ==
    /\ key = 127
    /\ total_letter_keys_typed = 2
    /\ user_input = <<"a">>
    /\ cursor_pos = 1
    /\ Len(suggestions) = 2

---------------------------------------------------------------------------
(* Properties of the helpers (HelperSpec). *)

\* the number of whitespace-delimited words of text: the positions where a word
\* begins
WordCount(text) ==
    Cardinality({i \in 1..Len(text) :
                   ~IsSpace(text[i]) /\ (i = 1 \/ IsSpace(text[i - 1]))})

\* the rational x is the quotient a / b
IsQuotient(x, a, b) == x[2] > 0 /\ x[1] * b = a * x[2]

\* C12: currentMetrics() is (lettersTyped, tabPresses, lettersTyped / W,
\* tabPresses / W) with W the number of whitespace-delimited words of the buffer,
\* and both averages are 0.0 when W = 0; 6 letters and 2 tabs over a two-word
\* buffer give the averages 3.0 and 1.0.
C12_MetricsPerWord ==
    ret.op = "calculate_scores" =>
        LET W == WordCount(user_input)
        IN  /\ Len(ret.val) = 4
            /\ ret.val[1] = total_letter_keys_typed
            /\ ret.val[2] = total_tab_key_presses
            /\ IF W = 0
               THEN ret.val[3] = <<0, 1>> /\ ret.val[4] = <<0, 1>>
               ELSE /\ IsQuotient(ret.val[3], total_letter_keys_typed, W)
                    /\ IsQuotient(ret.val[4], total_tab_key_presses, W)
            /\ (total_letter_keys_typed = 6 /\ total_tab_key_presses = 2 /\ W = 2)
                  => (ret.val[3] = <<3, 1>> /\ ret.val[4] = <<1, 1>>)

\* C12 witness: the metrics of 6 letters and 2 tabs over a two-word buffer that
\* also holds leading, doubled and trailing blanks.
C12_SixLettersTwoWords ==
    /\ ret.op = "calculate_scores"
    /\ total_letter_keys_typed = 6
    /\ total_tab_key_presses = 2
    /\ user_input = <<" ", "a", "b", " ", " ", "a", " ">>

HelloWorld == <<"h", "e", "l", "l", "o", " ", "w", "o", "r", "l", "d">>

\* C18: the current word for (buffer, cursor) is buffer[ws:cursor] with ws the
\* smallest index such that buffer[ws:cursor] holds no whitespace; it is empty
\* when the cursor is 0 or the character just before the cursor is whitespace,
\* and it holds no character at or after the cursor. In "hello world" it is
\* "world" at cursor 11, "hello" at cursor 5 and "" at cursor 0.
C18_CurrentWordAtCursor ==
    ret.op = "get_current_word" =>
        /\ ret.val = CurrentWord(user_input, cursor_pos)
        /\ (cursor_pos = 0 \/ IsSpace(user_input[cursor_pos])) => ret.val = <<>>
        /\ Len(ret.val) <= cursor_pos
        /\ ret.val = SubSeq(user_input, cursor_pos - Len(ret.val) + 1, cursor_pos)
        /\ user_input = HelloWorld =>
               /\ cursor_pos = 11 => ret.val = <<"w", "o", "r", "l", "d">>
               /\ cursor_pos = 5 => ret.val = <<"h", "e", "l", "l", "o">>
               /\ cursor_pos = 0 => ret.val = <<>>

\* C18 witness: the current word was asked for in "hello world" with the cursor
\* after "hello", where text follows the cursor.
C18_HelloAtFive ==
    /\ ret.op = "get_current_word"
    /\ user_input = HelloWorld
    /\ cursor_pos = 5
    /\ ret.val = <<"h", "e", "l", "l", "o">>

---------------------------------------------------------------------------
(* Properties of the model (ModelSpec). *)

\* some window of the padded word w has count 0 while its prefix has been seen
HasZeroWindow(w) ==
    \E i \in WindowRange(n, Padded(n, w)) :
        /\ Lookup(ngram_counts, Window(n, Padded(n, w), i)) = 0
        /\ Lookup(prefix_counts, DropLast(Window(n, Padded(n, w), i))) > 0

\* the sum of d[g] over the keys g in G
RECURSIVE SumOver(_, _)
SumOver(d, G) ==
    IF G = {} THEN 0
    ELSE LET g == CHOOSE x \in G : TRUE IN d[g] + SumOver(d, G \ {g})

\* the n-grams counted under prefix p: the keys g with g[0:n-1] = p
NgramsUnder(p) == {g \in DOMAIN ngram_counts : Slice(g, 0, n - 1) = p}

\* C13: after training with order n, prefixCounts[p] is, for every key p, the sum
\* of ngramCounts[g] over the n-grams g whose first n-1 characters are p; hence
\* prefixCounts[g[0:n-1]] >= ngramCounts[g] for every counted n-gram g.
C13_PrefixCountIsSum ==
    pc = "trained" =>
        /\ \A p \in DOMAIN prefix_counts :
               prefix_counts[p] = SumOver(ngram_counts, NgramsUnder(p))
        /\ \A g \in DOMAIN ngram_counts :
               /\ Slice(g, 0, n - 1) \in DOMAIN prefix_counts
               /\ prefix_counts[Slice(g, 0, n - 1)] >= ngram_counts[g]

\* C13 witness: a freshly trained model of order >= 2 in which some prefix was
\* seen three times or more, before two or more different n-grams.
C13_SharedPrefix ==
    /\ pc = "trained"
    /\ queries = 0
    /\ n >= 2
    /\ \E p \in DOMAIN prefix_counts :
           /\ prefix_counts[p] >= 3
           /\ Cardinality(NgramsUnder(p)) >= 2

\* the words of the vocabulary
Vocabulary == {words[t] : t \in 1..Len(words)}

IsPrefix(p, w) == Len(p) <= Len(w) /\ \A i \in 1..Len(p) : w[i] = p[i]

\* the vocabulary words that start with p
CandidateSet(p) == {w \in Vocabulary : IsPrefix(p, w)}

\* probability(w) in the current model
Probability(w) == word_probability(Model, n, w).val

\* C15: rankedTopK(p, k), k >= 0, holds only distinct vocabulary words that start
\* with p, is sorted by non-increasing probability, has length min(k, number of
\* candidates) (empty for k = 0), and leaves out no candidate of strictly higher
\* probability than one it includes.
C15_RankedTopKIsTopK ==
    ret.op = "predict" =>
        LET res == ret.val
            cands == CandidateSet(ret.arg)
        IN  /\ ret.kind = "list"
            /\ \A i \in 1..Len(res) : res[i] \in cands
            /\ \A i, j \in 1..Len(res) : res[i] = res[j] => i = j
            /\ \A i, j \in 1..Len(res) :
                   i < j => ~Greater(Probability(res[j]), Probability(res[i]))
            /\ Len(res) = Min(ret.top_k, Cardinality(cands))
            /\ \A w \in cands \ {res[i] : i \in 1..Len(res)} :
                   \A i \in 1..Len(res) : ~Greater(Probability(w), Probability(res[i]))

\* C15 witness: of two candidates only the top one was asked for, and it is the
\* one the vocabulary iterates second.
C15_TruncatedAndReordered ==
    /\ ret.op = "predict"
    /\ ret.top_k = 1
    /\ Len(words) = 2
    /\ Cardinality(CandidateSet(ret.arg)) = 2
    /\ ret.val = <<words[2]>>

\* C16: for a prefix p that no vocabulary word starts with (any p when the
\* vocabulary is empty) rankedTopK(p, k) is the empty sequence and bestMatch(p) is
\* p itself, and neither raises; with candidates, bestMatch(p) is a vocabulary
\* word that starts with p and whose probability no other candidate exceeds.
C16_NoMatchDegrades ==
    /\ (ret.op = "predict" /\ CandidateSet(ret.arg) = {}) =>
           (ret.kind = "list" /\ ret.val = <<>>)
    /\ ret.op = "generate" =>
           /\ ret.kind = "str"
           /\ IF CandidateSet(ret.arg) = {}
              THEN ret.val = ret.arg
              ELSE /\ ret.val \in CandidateSet(ret.arg)
                   /\ \A w \in CandidateSet(ret.arg) :
                          ~Greater(Probability(w), Probability(ret.val))

\* C16 witness: bestMatch was asked for a prefix that none of the words of a
\* vocabulary with two words starts with.
C16_BestMatchWithoutCandidate ==
    /\ ret.op = "generate"
    /\ Len(words) >= 2
    /\ ret.arg # <<>>
    /\ CandidateSet(ret.arg) = {}
    /\ ret.val = ret.arg

\* C4 as stated: probability(word) never raises, and gives 0.0 when some window
\* of the word has count 0 while the window's prefix has a count above 0.
C4_ProbabilityNeverRaises ==
    ret.op = "probability" =>
        /\ ret.kind = "float"
        /\ (HasZeroWindow(ret.arg) => ret.val = Zero)

\* C5 as stated: a model is constructed only for order >= 2.
C5_OrderAtLeastTwo == pc = "trained" => n >= 2

\* C6 as stated: no query changes ngramCounts, prefixCounts (keys and values),
\* vocabulary or order, and probability(w) asked twice in a row gives the same.
C6_QueriesReadOnly ==
    [][pc = "trained" =>
         /\ UNCHANGED <<ngram_counts, prefix_counts, words, n>>
         /\ ((ret.op = "probability" /\ ret'.op = "probability" /\ ret'.arg = ret.arg)
               => (ret'.kind = ret.kind /\ ret'.val = ret.val))]_vars

---------------------------------------------------------------------------
(* Properties of the typing scenario (ScenarioSpec). *)

\* the place of word w in the list l (0 when it is not there)
PlaceOf(l, w) == IF \E i \in 1..Len(l) : l[i] = w
                 THEN CHOOSE i \in 1..Len(l) : l[i] = w
                 ELSE 0

\* C17: on a model trained on "cat cats catalog" with order 2, typing c, a, t
\* into the empty session leaves buffer "cat", cursor 3, cycleIndex 0, and
\* suggestions holds "cat", no suggestion has a strictly higher probability than
\* "cat", and "cat" is ranked before "catalog".
C17_TypingCat ==
    (total_letter_keys_typed = 3 /\ user_input = <<"c", "a", "t">>) =>
        /\ cursor_pos = 3
        /\ current_suggestion_idx = 0
        /\ PlaceOf(suggestions, <<"c", "a", "t">>) > 0
        /\ \A i \in 1..Len(suggestions) :
               ~Greater(Probability(suggestions[i]), Probability(<<"c", "a", "t">>))
        /\ PlaceOf(suggestions, <<"c", "a", "t", "a", "l", "o", "g">>)
              > PlaceOf(suggestions, <<"c", "a", "t">>)

\* C17 witness: c, a, t were typed and "cats", which ties with "cat", is
\* suggested first.
C17_CatTyped ==
    /\ total_letter_keys_typed = 3
    /\ user_input = <<"c", "a", "t">>
    /\ key = 116
    /\ suggestions = << <<"c", "a", "t", "s">>, <<"c", "a", "t">>,
                        <<"c", "a", "t", "a", "l", "o", "g">> >>

---------------------------------------------------------------------------
(* Properties of the session over the wide vocabulary (WideSpec). *)

\* C21: in every state reachable by key events suggestions is empty or exactly
\* predict_top_words(current word at the cursor) with the default top_k of 10, so
\* it holds at most 10 entries and each is a vocabulary word that starts with the
\* current word; and an accepted suggestion leaves what was typed before the
\* cursor in place: the text before the new cursor starts with the text before
\* the old cursor, and the text after the cursor is unchanged.
C21_SuggestionsFitCurrentWord ==
    /\ [](\/ suggestions = <<>>
          \/ /\ suggestions = RankedTopK(CurrentWord(user_input, cursor_pos))
             /\ Len(suggestions) <= 10
             /\ \A i \in 1..Len(suggestions) :
                    /\ suggestions[i] \in Vocabulary
                    /\ IsPrefix(CurrentWord(user_input, cursor_pos), suggestions[i]))
    /\ [][(key' = ENTER /\ suggestions # <<>>) =>
            /\ IsPrefix(SubSeq(user_input, 1, cursor_pos),
                        SubSeq(user_input', 1, cursor_pos'))
            /\ SubSeq(user_input', cursor_pos' + 1, Len(user_input'))
                 = SubSeq(user_input, cursor_pos + 1, Len(user_input))]_vars

\* C21 witness: after a blank all eleven words are candidates, ten of them are
\* suggested, and TAB has moved on from the first.
C21_TenOfEleven ==
    /\ Len(suggestions) = 10
    /\ Cardinality(CandidateSet(CurrentWord(user_input, cursor_pos))) = 11
    /\ current_suggestion_idx > 0
    /\ user_input # <<>>

=============================================================================
